---- MODULE Spec2Model ----
(***************************************************************************)
(* Model of profitbricks/provider.go: tracking the progress of a request   *)
(* submitted to the ProfitBricks API.                                      *)
(*                                                                         *)
(* getStateChangeConf builds a resource.StateChangeConf whose Refresh      *)
(* callback is resourceStateRefreshFunc(meta, location).  The loop that    *)
(* drives the callback is StateChangeConf.WaitForState of the package      *)
(* github.com/hashicorp/terraform/helper/resource imported by provider.go; *)
(* it is modelled here as the two threads it consists of: the refresh      *)
(* goroutine, which sleeps, calls the closure and hands its result over,   *)
(* and the caller, which selects on the result and timeout channels.  The  *)
(* closure blocks in client.GetRequestStatus (line 143); the call of the   *)
(* closure and the answer of that read are separate steps, so the timeout  *)
(* may fire while a read is in flight.  Times are in milliseconds since    *)
(* WaitForState was entered.                                               *)
(***************************************************************************)
EXTENDS Integers, Sequences, FiniteSets, TLC

(***************************************************************************)
(* Bounds of the model                                                     *)
(***************************************************************************)
\* how many wake-ups of the refresh goroutine and answers of a read may
\* come late
MaxLate == 1
\* by how much a late wake-up or answer is late (ms)
LateBy == 3000
\* the longest wait (in refreshes) whose observations are kept as a history
MaxHist == 4

(***************************************************************************)
(* Program constants                                                       *)
(***************************************************************************)
Second == 1000
Minute == 60 * Second

\* a MinTimeout of one second
MinTimeoutShort == 1 * Second
\* provider.go:126  MinTimeout: 10 * time.Second
MinTimeout == 10 * Second
\* provider.go:127  Delay: 10 * time.Second
Delay == 10 * Second
\* half the number of checks
NotFoundChecksHalved == 600 \div 2
\* provider.go:128  NotFoundChecks: 600
NotFoundChecks == 600
\* helper/resource: how long WaitForState, its timeout passed, goes on
\* waiting for a refresh that is running
refreshGracePeriod == 30 * Second

\* provider.go:162  resourcePendingStates
resourcePendingStates == {"RUNNING", "QUEUED"}
\* provider.go:168  resourceTargetStates
resourceTargetStates == {"DONE"}

TimeoutTypes == {"create", "update", "delete", "default"}
\* provider.go:173  resourceDefaultTimeouts
resourceDefaultTimeouts == [k \in TimeoutTypes |-> 60 * Minute]

(***************************************************************************)
(* Values                                                                  *)
(***************************************************************************)
\* a Go nil (result or error) is the empty sequence, a value v is <<v>>
Nil == << >>
Some(v) == << v >>

\* fmt.Errorf(format, arg) with one %s verb at the end of the format
Errorf(format, arg) == format \o arg

\* raw statuses the API may report; PAUSED stands for a status the code
\* does not know
RawStatuses == {"QUEUED", "RUNNING", "PAUSED", "DONE", "FAILED"}
\* messages of request.Metadata.Message
Messages == {"", "disk full"}
\* errors client.GetRequestStatus may return
TransportErrors == {"connection reset"}
\* locations handed to getStateChangeConf
Paths == {"", "requests/1"}

\* the order in which a request moves through its statuses
Rank(s) ==
    CASE s = "QUEUED"  -> 0
      [] s = "RUNNING" -> 1
      [] s = "PAUSED"  -> 2
      [] OTHER         -> 3

Final(s) == s \in {"DONE", "FAILED"}

(***************************************************************************)
(* Variants of resourceStateRefreshFunc with one slip each, used to show   *)
(* that the properties below depend on the closure's code.                 *)
(***************************************************************************)
\* DONE reported without the request as the result
RefreshNilOnDone(p, terr, req) ==
    IF p = ""
    THEN [result |-> Nil, state |-> "",
          err |-> Some("Can not check a state when path is empty")]
    ELSE IF terr # Nil
    THEN [result |-> Nil, state |-> "",
          err |-> Some(Errorf("Request failed with following error: ", terr[1]))]
    ELSE IF req.status = "FAILED"
    THEN [result |-> Nil, state |-> "",
          err |-> Some(Errorf("Request failed with following error: ", req.message))]
    ELSE IF req.status = "DONE"
    THEN [result |-> Nil, state |-> "DONE", err |-> Nil]
    ELSE [result |-> Nil, state |-> req.status, err |-> Nil]

\* the error of GetRequestStatus dropped
RefreshSwallowsTransportError(p, terr, req) ==
    IF p = ""
    THEN [result |-> Nil, state |-> "",
          err |-> Some("Can not check a state when path is empty")]
    ELSE IF terr # Nil
    THEN [result |-> Nil, state |-> "", err |-> Nil]
    ELSE IF req.status = "FAILED"
    THEN [result |-> Nil, state |-> "",
          err |-> Some(Errorf("Request failed with following error: ", req.message))]
    ELSE IF req.status = "DONE"
    THEN [result |-> Some(req), state |-> "DONE", err |-> Nil]
    ELSE [result |-> Nil, state |-> req.status, err |-> Nil]

\* FAILED not told apart from the statuses in progress
RefreshIgnoresFailed(p, terr, req) ==
    IF p = ""
    THEN [result |-> Nil, state |-> "",
          err |-> Some("Can not check a state when path is empty")]
    ELSE IF terr # Nil
    THEN [result |-> Nil, state |-> "",
          err |-> Some(Errorf("Request failed with following error: ", terr[1]))]
    ELSE IF req.status = "DONE"
    THEN [result |-> Some(req), state |-> "DONE", err |-> Nil]
    ELSE [result |-> Nil, state |-> req.status, err |-> Nil]

\* the check of the path left out
RefreshNoPathCheck(p, terr, req) ==
    IF terr # Nil
    THEN [result |-> Nil, state |-> "",
          err |-> Some(Errorf("Request failed with following error: ", terr[1]))]
    ELSE IF req.status = "FAILED"
    THEN [result |-> Nil, state |-> "",
          err |-> Some(Errorf("Request failed with following error: ", req.message))]
    ELSE IF req.status = "DONE"
    THEN [result |-> Some(req), state |-> "DONE", err |-> Nil]
    ELSE [result |-> Nil, state |-> req.status, err |-> Nil]

\* the request returned as the result while it is still in progress
RefreshResultWhilePending(p, terr, req) ==
    IF p = ""
    THEN [result |-> Nil, state |-> "",
          err |-> Some("Can not check a state when path is empty")]
    ELSE IF terr # Nil
    THEN [result |-> Nil, state |-> "",
          err |-> Some(Errorf("Request failed with following error: ", terr[1]))]
    ELSE IF req.status = "FAILED"
    THEN [result |-> Nil, state |-> "",
          err |-> Some(Errorf("Request failed with following error: ", req.message))]
    ELSE IF req.status = "DONE"
    THEN [result |-> Some(req), state |-> "DONE", err |-> Nil]
    ELSE [result |-> Some(req), state |-> req.status, err |-> Nil]

\* the message of a FAILED request left out of the error
RefreshDropsMessage(p, terr, req) ==
    IF p = ""
    THEN [result |-> Nil, state |-> "",
          err |-> Some("Can not check a state when path is empty")]
    ELSE IF terr # Nil
    THEN [result |-> Nil, state |-> "",
          err |-> Some(Errorf("Request failed with following error: ", terr[1]))]
    ELSE IF req.status = "FAILED"
    THEN [result |-> Nil, state |-> "", err |-> Some("Request failed")]
    ELSE IF req.status = "DONE"
    THEN [result |-> Some(req), state |-> "DONE", err |-> Nil]
    ELSE [result |-> Nil, state |-> req.status, err |-> Nil]

\* DONE taken for completion only when the request carries no message
RefreshDoneOnlyWithoutMessage(p, terr, req) ==
    IF p = ""
    THEN [result |-> Nil, state |-> "",
          err |-> Some("Can not check a state when path is empty")]
    ELSE IF terr # Nil
    THEN [result |-> Nil, state |-> "",
          err |-> Some(Errorf("Request failed with following error: ", terr[1]))]
    ELSE IF req.status = "FAILED" \/ (req.status = "DONE" /\ req.message # "")
    THEN [result |-> Nil, state |-> "",
          err |-> Some(Errorf("Request failed with following error: ", req.message))]
    ELSE IF req.status = "DONE"
    THEN [result |-> Some(req), state |-> "DONE", err |-> Nil]
    ELSE [result |-> Nil, state |-> req.status, err |-> Nil]

(***************************************************************************)
(* resourceStateRefreshFunc: one call of the closure.                      *)
(*   p    the path captured by the closure                                 *)
(*   terr the error of client.GetRequestStatus (Nil when it succeeded)     *)
(*   req  the request status returned by client.GetRequestStatus           *)
(* The value is the triple (result, state, error) of the closure.          *)
(***************************************************************************)
resourceStateRefreshFunc(p, terr, req) ==
    IF p = ""
    THEN [result |-> Nil, state |-> "",
          err |-> Some("Can not check a state when path is empty")]
    ELSE IF terr # Nil
    THEN [result |-> Nil, state |-> "",
          err |-> Some(Errorf("Request failed with following error: ", terr[1]))]
    ELSE IF req.status = "FAILED"
    THEN [result |-> Nil, state |-> "",
          err |-> Some(Errorf("Request failed with following error: ", req.message))]
    ELSE IF req.status = "DONE"
    THEN [result |-> Some(req), state |-> "DONE", err |-> Nil]
    ELSE [result |-> Nil, state |-> req.status, err |-> Nil]

\* a closure that asks for the status a second time
RemoteReadsTwice(p) == IF p = "" THEN 0 ELSE 2
\* the number of calls of client.GetRequestStatus one call of the closure makes
RemoteReads(p) == IF p = "" THEN 0 ELSE 1

\* the number of calls one call of the closure makes that change the request
\* or submit it again: the closure calls nothing but GetRequestStatus
RemoteWrites(p) == 0

(***************************************************************************)
(* State                                                                   *)
(***************************************************************************)
VARIABLES
    path,            \* location passed to getStateChangeConf
    timeoutType,     \* timeoutType passed to getStateChangeConf
    d,               \* the resource data: its timeout of every type
    remote,          \* the request status held by the API
    cancelled,       \* "no", or whether a refresh ran since the enclosing
                     \* operation was cancelled ("quiet", "polled")
    now,             \* time since WaitForState was entered (ms)
    pc,              \* refresh goroutine: "delay", "loop", "reading" (in
                     \* GetRequestStatus), "grace" (in GetRequestStatus,
                     \* the timeout passed) or "closed"
    wait,            \* the goroutine's wait before its next refresh
    notfoundTick,    \* WaitForState's count of refreshes without a result
    targetOccurence, \* WaitForState's count of target states seen
    lastResult,      \* the last result the caller received
    outcome,         \* "Pending" until WaitForState returns, then what it returned
    ret,             \* the pair WaitForState returned
    polls,           \* calls of the refresh closure
    reads,           \* calls of client.GetRequestStatus made
    writes,          \* calls of the client that change the request or resubmit it
    pendingSeen,     \* refreshes that read a status other than DONE, FAILED
    lastObserved,    \* what the last refresh that returned read: Nil, or
                     \* the request status
    lastTransportErr, \* the error of the last call of GetRequestStatus that
                     \* returned, or Nil
    late,            \* late wake-ups and answers so far
    hist,            \* the observations of a wait of at most MaxHist refreshes
    \* two waits running side by side
    handles,         \* the location each of the two waits was given
    remotes,         \* the request status the API holds for each location
    inst,            \* the state of each of the two waits
    readers,         \* for each location, the waits that asked for its status
    shared,          \* the package-level lists resourcePendingStates and
                     \* resourceTargetStates, which the StateChangeConf of
                     \* every wait refers to
    \* the configuration of the provider
    cfg,             \* the provider's settings and what config.Client() will do
    configured,      \* Nil, or what providerConfigure returned
    url,             \* an endpoint under cleanURL
    cleans           \* how often cleanURL was applied to url

vars == << path, timeoutType, d, remote, cancelled, now, pc, wait,
           notfoundTick, targetOccurence, lastResult, outcome, ret, polls,
           reads, writes, pendingSeen, lastObserved, lastTransportErr, late, hist,
           handles, remotes, inst, readers, shared, cfg, configured, url,
           cleans >>

\* the variables of the two waits side by side
twoVars == << handles, remotes, inst, readers, shared >>
\* the variables of the provider's configuration
provVars == << cfg, configured, url, cleans >>
\* the variables of the single wait
waitVars == << path, timeoutType, d, remote, cancelled, now, pc, wait,
               notfoundTick, targetOccurence, lastResult, outcome, ret, polls,
               reads, writes, pendingSeen, lastObserved, lastTransportErr,
               late, hist >>

\* nothing but the single wait is running
TwoIdle ==
    /\ handles = << >> /\ remotes = << >> /\ inst = << >> /\ readers = << >>
    /\ shared = << >>
ProvIdle == cfg = << >> /\ configured = Nil /\ url = << >> /\ cleans = 0

\* timeouts a configuration may set in place of the default
UserTimeouts == {1 * Minute, 120 * Minute}

\* the resource data a wait may run with: the defaults for every type, or
\* a create timeout set by the configuration
Configurations ==
    {<< k, resourceDefaultTimeouts >> : k \in TimeoutTypes}
    \cup {<< "create", [resourceDefaultTimeouts EXCEPT !["create"] = u] >> :
             u \in UserTimeouts}

NoResult == [result |-> Nil, state |-> "", err |-> Nil]

\* d.Timeout(timeoutType)
Timeout == d[timeoutType]

\* getStateChangeConf: the configuration of the wait
getStateChangeConf ==
    [Pending        |-> resourcePendingStates,
     Target         |-> resourceTargetStates,
     Timeout        |-> Timeout,
     MinTimeout     |-> MinTimeout,
     Delay          |-> Delay,
     NotFoundChecks |-> NotFoundChecks]

\* a wait that has just been entered
WaitStart ==
    /\ remote = [status |-> "QUEUED", message |-> ""]
    /\ cancelled = "no"
    /\ now = 0
    /\ pc = "delay"
    /\ wait = 0
    /\ notfoundTick = 0
    /\ targetOccurence = 0
    /\ lastResult = NoResult
    /\ outcome = "Pending"
    /\ ret = [result |-> Nil, err |-> Nil]
    /\ polls = 0
    /\ reads = 0
    /\ writes = 0
    /\ pendingSeen = 0
    /\ lastObserved = Nil
    /\ lastTransportErr = Nil
    /\ late = 0
    /\ hist = << >>

Init ==
    /\ path \in Paths
    /\ \E c \in Configurations : timeoutType = c[1] /\ d = c[2]
    /\ WaitStart
    /\ TwoIdle
    /\ ProvIdle

(***************************************************************************)
(* The API: the request moves forward through its statuses; DONE and       *)
(* FAILED are final.                                                       *)
(***************************************************************************)
RemoteStep ==
    /\ outcome = "Pending"
    /\ ~Final(remote.status)
    /\ \E s \in RawStatuses, m \in Messages :
          /\ Rank(s) > Rank(remote.status)
          /\ (m # "" => Final(s))
          /\ remote' = [status |-> s, message |-> m]
    /\ UNCHANGED << path, timeoutType, d, cancelled, now, pc, wait,
                    notfoundTick, targetOccurence, lastResult, outcome, ret,
                    polls, reads, writes, pendingSeen, lastObserved, lastTransportErr, late, hist,
                    twoVars, provVars >>

\* The enclosing operation is cancelled.  getStateChangeConf passes no
\* context or stop channel to the wait, so nothing of the wait changes.
Cancel ==
    /\ outcome = "Pending"
    /\ cancelled = "no"
    /\ cancelled' = "quiet"
    /\ UNCHANGED << path, timeoutType, d, remote, now, pc, wait,
                    notfoundTick, targetOccurence, lastResult, outcome, ret,
                    polls, reads, writes, pendingSeen, lastObserved, lastTransportErr, late, hist,
                    twoVars, provVars >>

(***************************************************************************)
(* WaitForState                                                            *)
(***************************************************************************)
\* by how much the next wake-up, or the answer of a read, may be late
Lateness == {0} \cup (IF late < MaxLate THEN {LateBy} ELSE {})

\* time.Sleep(conf.Delay) of the refresh goroutine
InitialDelay ==
    /\ outcome = "Pending"
    /\ pc = "delay"
    /\ \E j \in Lateness :
          /\ getStateChangeConf.Delay + j <= getStateChangeConf.Timeout
          /\ now' = getStateChangeConf.Delay + j
          /\ late' = IF j > 0 THEN late + 1 ELSE late
    /\ pc' = "loop"
    /\ wait' = 0
    /\ UNCHANGED << path, timeoutType, d, remote, cancelled, notfoundTick,
                    targetOccurence, lastResult, outcome, ret, polls, reads, writes,
                    pendingSeen, lastObserved, lastTransportErr, hist,
                    twoVars, provVars >>

\* the wait before the refresh after this one
NextWait(conf, w, occ) ==
    LET w0 == IF w = 0 THEN 100 ELSE w
        w1 == IF occ = 0 THEN 2 * w0 ELSE w0
    IN  IF w1 < conf.MinTimeout THEN conf.MinTimeout
        ELSE IF w1 > 10 * Second THEN 10 * Second
        ELSE w1

\* what the loop makes of the triple r a refresh returned:
\* the kind of step, and the two counters after it
Evaluate(conf, r, nf, occ) ==
    IF r.err # Nil
    THEN [kind |-> "RefreshError", nf |-> nf, occ |-> occ]
    ELSE IF r.result = Nil /\ conf.Target = {}
    THEN [kind |-> "Succeeded", nf |-> nf, occ |-> occ + 1]
    ELSE IF r.result = Nil
    THEN IF nf + 1 > conf.NotFoundChecks
         THEN [kind |-> "NotFoundError", nf |-> nf + 1, occ |-> occ]
         ELSE [kind |-> "Pending", nf |-> nf + 1, occ |-> occ]
    ELSE IF r.state \in conf.Target
    THEN [kind |-> "Succeeded", nf |-> 0, occ |-> occ + 1]
    ELSE IF r.state \in conf.Pending
    THEN [kind |-> "Pending", nf |-> 0, occ |-> 0]
    ELSE IF conf.Pending # {}
    THEN [kind |-> "UnexpectedStateError", nf |-> 0, occ |-> occ]
    ELSE [kind |-> "Pending", nf |-> 0, occ |-> occ]

\* the error the refresh goroutine hands over with a result that ends it
ErrorOf(kind, r, conf) ==
    CASE kind = "RefreshError" ->
            Some([kind |-> "error", text |-> r.err[1], lastState |-> ""])
      [] kind = "NotFoundError" ->
            Some([kind |-> "NotFoundError", text |-> "couldn't find resource",
                  lastState |-> r.state])
      [] kind = "UnexpectedStateError" ->
            Some([kind |-> "UnexpectedStateError", text |-> "unexpected state",
                  lastState |-> r.state])
      [] OTHER -> Nil

\* the TimeoutError WaitForState returns: the state and the error of the
\* last result it received
TimeoutErrorOf(state, lastError) ==
    Some([kind |-> "TimeoutError", text |-> "timeout while waiting for state",
          lastState |-> state, lastError |-> lastError])

\* what a refresh observed, for the history
Observation(p, terr, req) ==
    IF p = "" THEN "-" ELSE IF terr # Nil THEN "ERROR" ELSE req.status

\* the closure returns the triple r to the loop, as refresh number n, having
\* got terr and the request held by the API from GetRequestStatus if it
\* called it; e is what the loop makes of r
Receive(n, terr, r, e) ==
    /\ lastTransportErr' = terr
    /\ lastObserved' = IF path = "" \/ terr # Nil THEN Nil ELSE Some(remote)
    /\ pendingSeen' = IF path # "" /\ terr = Nil /\ ~Final(remote.status)
                      THEN pendingSeen + 1 ELSE pendingSeen
    /\ hist' = IF n <= MaxHist
               THEN Append(hist, Observation(path, terr, remote))
               ELSE << >>
    /\ notfoundTick' = e.nf
    /\ targetOccurence' = e.occ
    /\ lastResult' = r
    /\ wait' = NextWait(getStateChangeConf, wait, e.occ)

\* the caller, its timeout not passed, receives the result: the loop goes
\* on, or WaitForState returns
Return(r, e) ==
    /\ outcome' = e.kind
    /\ pc' = IF e.kind = "Pending" THEN "loop" ELSE "closed"
    /\ ret' = IF e.kind = "Pending" THEN ret
              ELSE [result |-> r.result,
                    err |-> ErrorOf(e.kind, r, getStateChangeConf)]

\* the refresh goroutine has waited and calls the closure (lines 136-143).
\* With an empty path the closure returns at once (line 140); otherwise it
\* calls client.GetRequestStatus and waits for the answer.
Poll ==
    /\ outcome = "Pending"
    /\ pc = "loop"
    /\ \E j \in Lateness :
          LET conf == getStateChangeConf
              t    == now + wait + j
          IN  /\ t <= conf.Timeout
              /\ now' = t
              /\ late' = IF j > 0 THEN late + 1 ELSE late
              /\ polls' = polls + 1
              /\ reads' = reads + RemoteReads(path)
              /\ writes' = writes + RemoteWrites(path)
              /\ cancelled' = IF cancelled = "no" THEN "no" ELSE "polled"
              /\ IF path = ""
                 THEN LET r == resourceStateRefreshFunc(path, Nil, remote)
                          e == Evaluate(conf, r, notfoundTick, targetOccurence)
                      IN  Receive(polls + 1, Nil, r, e) /\ Return(r, e)
                 ELSE /\ pc' = "reading"
                      /\ UNCHANGED << lastTransportErr, lastObserved,
                                      pendingSeen, hist, notfoundTick,
                                      targetOccurence, lastResult, wait,
                                      outcome, ret >>
    /\ UNCHANGED << path, timeoutType, d, remote,
                    twoVars, provVars >>

\* client.GetRequestStatus answers before the timeout has passed; the
\* closure returns (lines 143-157) and the caller receives the result
Answer ==
    /\ outcome = "Pending"
    /\ pc = "reading"
    /\ \E j \in Lateness, terr \in {Nil} \cup {Some(x) : x \in TransportErrors} :
          LET conf == getStateChangeConf
              r    == resourceStateRefreshFunc(path, terr, remote)
              e    == Evaluate(conf, r, notfoundTick, targetOccurence)
          IN  /\ now + j <= conf.Timeout
              /\ now' = now + j
              /\ late' = IF j > 0 THEN late + 1 ELSE late
              /\ Receive(polls, terr, r, e)
              /\ Return(r, e)
    /\ UNCHANGED << path, timeoutType, d, remote, cancelled, polls, reads,
                    writes, twoVars, provVars >>

\* the caller's timeout channel fires.  While the goroutine sleeps it is
\* cancelled and WaitForState returns; while it is in GetRequestStatus,
\* however long that call has taken, the caller starts its grace period.
TimeoutFire ==
    /\ outcome = "Pending"
    /\ pc \in {"delay", "loop", "reading"}
    /\ LET conf == getStateChangeConf
           wake == IF pc = "delay" THEN conf.Delay ELSE now + wait
       IN  /\ pc # "reading" => \E j \in Lateness : wake + j >= conf.Timeout
           /\ now' = conf.Timeout
           /\ IF pc = "reading"
              THEN /\ pc' = "grace"
                   /\ UNCHANGED << outcome, ret >>
              ELSE /\ pc' = "closed"
                   /\ outcome' = "TimeoutError"
                   /\ ret' = [result |-> Nil,
                              err |-> TimeoutErrorOf(lastResult.state, Nil)]
    /\ UNCHANGED << path, timeoutType, d, remote, cancelled, wait,
                    notfoundTick, targetOccurence, lastResult, polls, reads, writes,
                    pendingSeen, lastObserved, lastTransportErr, late, hist,
                    twoVars, provVars >>

\* client.GetRequestStatus answers within the grace period: a result that
\* reached the target is returned as a success, any other becomes the last
\* state and the last error of the TimeoutError
GraceAnswer ==
    /\ outcome = "Pending"
    /\ pc = "grace"
    /\ \E terr \in {Nil} \cup {Some(x) : x \in TransportErrors} :
          LET conf == getStateChangeConf
              r    == resourceStateRefreshFunc(path, terr, remote)
              e    == Evaluate(conf, r, notfoundTick, targetOccurence)
          IN  /\ Receive(polls, terr, r, e)
              /\ outcome' = IF e.kind = "Succeeded" THEN "Succeeded"
                            ELSE "TimeoutError"
              /\ ret' = IF e.kind = "Succeeded"
                        THEN [result |-> r.result, err |-> Nil]
                        ELSE [result |-> Nil,
                              err |-> TimeoutErrorOf(r.state,
                                                     ErrorOf(e.kind, r, conf))]
    /\ pc' = "closed"
    /\ UNCHANGED << path, timeoutType, d, remote, cancelled, now, polls,
                    reads, writes, late, twoVars, provVars >>

\* the grace period passes with GetRequestStatus still not answered
GraceExpire ==
    /\ outcome = "Pending"
    /\ pc = "grace"
    /\ now' = getStateChangeConf.Timeout + refreshGracePeriod
    /\ pc' = "closed"
    /\ outcome' = "TimeoutError"
    /\ ret' = [result |-> Nil, err |-> TimeoutErrorOf(lastResult.state, Nil)]
    /\ UNCHANGED << path, timeoutType, d, remote, cancelled, wait,
                    notfoundTick, targetOccurence, lastResult, polls, reads, writes,
                    pendingSeen, lastObserved, lastTransportErr, late, hist,
                    twoVars, provVars >>

Next ==
    \/ RemoteStep
    \/ Cancel
    \/ InitialDelay
    \/ Poll
    \/ Answer
    \/ TimeoutFire
    \/ GraceAnswer
    \/ GraceExpire

Spec == Init /\ [][Next]_vars

TypeOK ==
    /\ path \in Paths
    /\ timeoutType \in TimeoutTypes
    /\ remote.status \in RawStatuses
    /\ outcome \in {"Pending", "Succeeded", "RefreshError", "NotFoundError",
                    "UnexpectedStateError", "TimeoutError"}
    /\ polls \in Nat /\ reads \in Nat /\ now \in Nat

(***************************************************************************)
(* Two waits side by side, each with its own StateChangeConf and its own   *)
(* refresh closure, for two requests of the same resource data             *)
(***************************************************************************)
\* the timeout the configuration sets for the two waits
ShortTimeout == 30 * Second

Waits == {1, 2}
Handles == {"requests/1", "requests/2"}

\* a closure that reads the path from a place all closures share, where the
\* first wait left its own
ClosurePathShared(paths, i) == paths[1]
\* the path the refresh closure of wait i reads: the argument of its own
\* call of resourceStateRefreshFunc
ClosurePath(paths, i) == paths[i]

TwoStart ==
    [now |-> 0, pc |-> "delay", wait |-> 0, notfoundTick |-> 0,
     targetOccurence |-> 0, polls |-> 0, outcome |-> "Pending",
     ret |-> [result |-> Nil, err |-> Nil], lastState |-> "", own |-> << >>,
     fired |-> FALSE]

TwoInit ==
    /\ handles \in {h \in [Waits -> Handles] : h[1] # h[2]}
    /\ remotes = [h \in Handles |-> [status |-> "QUEUED", message |-> ""]]
    /\ inst = [i \in Waits |-> TwoStart]
    /\ readers = [h \in Handles |-> {}]
    /\ shared = [pending |-> resourcePendingStates,
                 target  |-> resourceTargetStates]

\* the StateChangeConf getStateChangeConf builds for each of the two waits:
\* its Pending and Target are the package-level lists, not copies of them
TwoConf ==
    [getStateChangeConf EXCEPT !.Pending = shared.pending,
                               !.Target  = shared.target]

\* the API moves one of the requests forward
TwoRemoteStep ==
    /\ \E h \in Handles, s \in RawStatuses, m \in Messages :
          /\ \E i \in Waits : handles[i] = h /\ inst[i].outcome = "Pending"
          /\ ~Final(remotes[h].status)
          /\ Rank(s) > Rank(remotes[h].status)
          /\ (m # "" => s = "FAILED")
          /\ remotes' = [remotes EXCEPT ![h] = [status |-> s, message |-> m]]
    /\ UNCHANGED << handles, inst, readers, shared, waitVars, provVars >>

\* time.Sleep(conf.Delay) of wait i
TwoInitialDelay ==
    /\ \E i \in Waits :
          /\ inst[i].outcome = "Pending"
          /\ inst[i].pc = "delay"
          /\ getStateChangeConf.Delay <= getStateChangeConf.Timeout
          /\ inst' = [inst EXCEPT ![i].now = getStateChangeConf.Delay,
                                  ![i].pc = "loop"]
    /\ UNCHANGED << handles, remotes, readers, shared, waitVars, provVars >>

\* wait i after the closure returned the triple r and the loop made e of it.
\* The log own is not the wait's: it records, for each answer the wait got,
\* the error of the call and the status the wait's own request had then
TwoReceive(w, terr, req, r, e) ==
    [w EXCEPT !.wait = NextWait(TwoConf, w.wait, e.occ),
              !.notfoundTick = e.nf,
              !.targetOccurence = e.occ,
              !.lastState = r.state,
              !.own = Append(w.own, [terr |-> terr, req |-> req])]

\* the refresh goroutine of wait i has waited and calls its closure, which
\* calls client.GetRequestStatus with its path
TwoPoll ==
    /\ \E i \in Waits :
          LET conf == TwoConf
              w    == inst[i]
              t    == w.now + w.wait
              p    == ClosurePath(handles, i)
          IN  /\ w.outcome = "Pending"
              /\ w.pc = "loop"
              /\ t <= conf.Timeout
              /\ inst' = [inst EXCEPT ![i].now = t,
                                      ![i].pc = "reading",
                                      ![i].polls = w.polls + 1]
              /\ readers' = [readers EXCEPT ![p] = @ \cup {i}]
    /\ UNCHANGED << handles, remotes, shared, waitVars, provVars >>

\* GetRequestStatus answers wait i before its timeout has passed
TwoAnswer ==
    /\ \E i \in Waits, terr \in {Nil} \cup {Some(x) : x \in TransportErrors} :
          LET conf == TwoConf
              w    == inst[i]
              p    == ClosurePath(handles, i)
              r    == resourceStateRefreshFunc(p, terr, remotes[p])
              e    == Evaluate(conf, r, w.notfoundTick, w.targetOccurence)
          IN  /\ w.outcome = "Pending"
              /\ w.pc = "reading"
              /\ inst' = [inst EXCEPT ![i] =
                    [TwoReceive(w, terr, remotes[handles[i]], r, e) EXCEPT
                       !.pc = IF e.kind = "Pending" THEN "loop" ELSE "closed",
                       !.outcome = e.kind,
                       !.ret = IF e.kind = "Pending" THEN w.ret
                               ELSE [result |-> r.result,
                                     err |-> ErrorOf(e.kind, r, conf)]]]
    /\ UNCHANGED << handles, remotes, readers, shared, waitVars, provVars >>

\* the timeout of wait i fires, before its next refresh or while its read
\* is in flight
TwoTimeoutFire ==
    /\ \E i \in Waits :
          LET conf == TwoConf
              w    == inst[i]
              wake == IF w.pc = "delay" THEN conf.Delay ELSE w.now + w.wait
          IN  /\ w.outcome = "Pending"
              /\ w.pc \in {"delay", "loop", "reading"}
              /\ w.pc # "reading" => wake >= conf.Timeout
              /\ inst' = [inst EXCEPT ![i] =
                    IF w.pc = "reading"
                    THEN [w EXCEPT !.now = conf.Timeout, !.pc = "grace",
                                   !.fired = TRUE]
                    ELSE [w EXCEPT !.now = conf.Timeout, !.pc = "closed",
                                   !.fired = TRUE,
                                   !.outcome = "TimeoutError",
                                   !.ret = [result |-> Nil,
                                            err |-> TimeoutErrorOf(w.lastState, Nil)]]]
    /\ UNCHANGED << handles, remotes, readers, shared, waitVars, provVars >>

\* GetRequestStatus answers wait i within its grace period
TwoGraceAnswer ==
    /\ \E i \in Waits, terr \in {Nil} \cup {Some(x) : x \in TransportErrors} :
          LET conf == TwoConf
              w    == inst[i]
              p    == ClosurePath(handles, i)
              r    == resourceStateRefreshFunc(p, terr, remotes[p])
              e    == Evaluate(conf, r, w.notfoundTick, w.targetOccurence)
          IN  /\ w.outcome = "Pending"
              /\ w.pc = "grace"
              /\ inst' = [inst EXCEPT ![i] =
                    [TwoReceive(w, terr, remotes[handles[i]], r, e) EXCEPT
                       !.pc = "closed",
                       !.outcome = IF e.kind = "Succeeded" THEN "Succeeded"
                                   ELSE "TimeoutError",
                       !.ret = IF e.kind = "Succeeded"
                               THEN [result |-> r.result, err |-> Nil]
                               ELSE [result |-> Nil,
                                     err |-> TimeoutErrorOf(r.state,
                                                ErrorOf(e.kind, r, conf))]]]
    /\ UNCHANGED << handles, remotes, readers, shared, waitVars, provVars >>

\* the grace period of wait i passes with its read still not answered
TwoGraceExpire ==
    /\ \E i \in Waits :
          LET conf == TwoConf
              w    == inst[i]
          IN  /\ w.outcome = "Pending"
              /\ w.pc = "grace"
              /\ inst' = [inst EXCEPT ![i] =
                    [w EXCEPT !.now = conf.Timeout + refreshGracePeriod,
                              !.pc = "closed",
                              !.outcome = "TimeoutError",
                              !.ret = [result |-> Nil,
                                       err |-> TimeoutErrorOf(w.lastState, Nil)]]]
    /\ UNCHANGED << handles, remotes, readers, shared, waitVars, provVars >>

\* the single wait is not running; its resource data, with a short create
\* timeout, is that of the two waits
WaitConfigured ==
    /\ path = "requests/1"
    /\ timeoutType = "create"
    /\ d = [resourceDefaultTimeouts EXCEPT !["create"] = ShortTimeout]
    /\ WaitStart

InitTwo == TwoInit /\ WaitConfigured /\ ProvIdle
NextTwo ==
    \/ TwoRemoteStep
    \/ TwoInitialDelay
    \/ TwoPoll
    \/ TwoAnswer
    \/ TwoTimeoutFire
    \/ TwoGraceAnswer
    \/ TwoGraceExpire
SpecTwo == InitTwo /\ [][NextTwo]_vars

(***************************************************************************)
(* providerConfigure and cleanURL                                          *)
(***************************************************************************)
\* the longest endpoint tried
MaxURLLen == 3
\* provider.go:47  Default: 50
Retries == 50

\* the characters of an endpoint: a slash and one that is not a slash
URLChars == {"h", "/"}
\* the endpoints: the strings of at most MaxURLLen characters
Endpoints == UNION {[1..n -> URLChars] : n \in 0..MaxURLLen}
\* the values of username, password and token; "" is an unset one
Usernames == {"", "user"}
Passwords == {"", "secret"}
Tokens == {"", "tok"}
\* the errors config.Client() may return
ClientErrors == {Nil, Some("client error")}

\* cleanURL
cleanURL(u) ==
    LET length == Len(u)
    IN  IF length > 1 /\ u[length] = "/"
        THEN SubSeq(u, 1, length - 1)
        ELSE u

\* d.GetOk(key): the value, and whether it is set to other than the zero value
GetOk(v) == [value |-> v, ok |-> v # ""]

\* config.Client() for the Config built at the end of providerConfigure
ConfigClient(c, config) ==
    IF c.clientErr # Nil
    THEN [client |-> Nil, err |-> c.clientErr]
    ELSE [client |-> Some(config), err |-> Nil]

\* providerConfigure without the test of a token given along with a username
\* or password
providerConfigureNoConflictTest(c) ==
    LET username == GetOk(c.username)
        password == GetOk(c.password)
        token    == GetOk(c.token)
    IN  IF token.value = "" /\ ~username.ok
        THEN [client |-> Nil,
              err |-> Some("Neither ProfitBricks token, nor ProfitBricks username has been provided")]
        ELSE IF token.value = "" /\ ~password.ok
        THEN [client |-> Nil,
              err |-> Some("Neither ProfitBricks token, nor ProfitBricks password has been provided")]
        ELSE ConfigClient(c, [Username |-> username.value,
                              Password |-> password.value,
                              Endpoint |-> cleanURL(c.endpoint),
                              Retries  |-> Retries,
                              Token    |-> token.value])

\* providerConfigure: the pair (client, error) it returns
providerConfigure(c) ==
    LET username == GetOk(c.username)
        password == GetOk(c.password)
        token    == GetOk(c.token)
    IN  IF token.value = "" /\ ~username.ok
        THEN [client |-> Nil,
              err |-> Some("Neither ProfitBricks token, nor ProfitBricks username has been provided")]
        ELSE IF token.value = "" /\ ~password.ok
        THEN [client |-> Nil,
              err |-> Some("Neither ProfitBricks token, nor ProfitBricks password has been provided")]
        ELSE IF token.value # "" /\ (username.ok \/ password.ok)
        THEN [client |-> Nil,
              err |-> Some("Only provide ProfitBricks token OR ProfitBricks username/password.")]
        ELSE ConfigClient(c, [Username |-> username.value,
                              Password |-> password.value,
                              Endpoint |-> cleanURL(c.endpoint),
                              Retries  |-> Retries,
                              Token    |-> token.value])

\* the provider is about to be configured; no wait is running
ProvInit ==
    /\ cfg \in [username : Usernames, password : Passwords, token : Tokens,
                endpoint : Endpoints, clientErr : ClientErrors]
    /\ configured = Nil
    /\ url = cfg.endpoint
    /\ cleans = 0

\* the framework calls providerConfigure
Configure ==
    /\ cfg # << >>
    /\ configured = Nil
    /\ configured' = Some(providerConfigure(cfg))
    /\ UNCHANGED << cfg, url, cleans, waitVars, twoVars >>

\* cleanURL applied to the endpoint, and to its own result
CleanURL ==
    /\ cfg # << >>
    /\ cleans < 2
    /\ url' = cleanURL(url)
    /\ cleans' = cleans + 1
    /\ UNCHANGED << cfg, configured, waitVars, twoVars >>

\* a wait that is not running
WaitIdle ==
    /\ path = "requests/1"
    /\ timeoutType = "create"
    /\ d = resourceDefaultTimeouts
    /\ WaitStart

InitProvider == ProvInit /\ WaitIdle /\ TwoIdle
NextProvider == Configure \/ CleanURL
SpecProvider == InitProvider /\ [][NextProvider]_vars

(***************************************************************************)
(* Properties                                                              *)
(***************************************************************************)
Ended == outcome # "Pending"
PrefixFailed == "Request failed with following error: "
ObservedStatus == IF lastObserved = Nil THEN "" ELSE lastObserved[1].status
ErrText == IF ret.err = Nil THEN "" ELSE ret.err[1].text
ErrKind == IF ret.err = Nil THEN "" ELSE ret.err[1].kind

\* C1: n statuses in progress followed by DONE, with n at most the 600
\* refreshes without a result that are tolerated and the timeout not reached:
\* the wait succeeds at refresh n+1 and returns the request that refresh read
\* (also when the timeout passed while that read was in flight and the answer
\* came within the grace period).  Nothing but the timeout or a refresh error
\* ends such a wait earlier.
C1_SucceedsAfterPendingThenDone ==
    /\ ObservedStatus = "DONE" =>
          /\ outcome = "Succeeded"
          /\ polls = pendingSeen + 1
          /\ pendingSeen <= 600
          /\ ret = [result |-> lastObserved, err |-> Nil]
    /\ outcome = "Succeeded" => ObservedStatus = "DONE"
    /\ outcome = "NotFoundError" => pendingSeen > 600
    /\ outcome # "UnexpectedStateError"

\* the run QUEUED, RUNNING, RUNNING, DONE has succeeded at its fourth refresh
C1_Witness ==
    /\ outcome = "Succeeded"
    /\ polls = 4
    /\ hist = << "QUEUED", "RUNNING", "RUNNING", "DONE" >>
    /\ ret.result = Some(remote)

\* C2 as stated: a failed call of GetRequestStatus leaves the wait pending
\* while fewer than 600 refreshes have failed
C2_TransportErrorTolerated ==
    (lastTransportErr # Nil /\ polls < 600) => outcome = "Pending"

\* C2 amended: a failed call of GetRequestStatus ends the wait at that very
\* refresh; the wrapped error is returned with no result, and the refresh is
\* not counted as one without a result.  Only when the timeout passed while
\* the call was in flight does the wait end by its timeout instead: with the
\* wrapped error as the last error of the timeout error when the call is
\* answered within the grace period, and with no last error when the grace
\* period passes first
C2_TransportErrorEndsWait ==
    /\ [](lastTransportErr # Nil =>
            LET wrapped == Some([kind |-> "error",
                                 text |-> PrefixFailed \o lastTransportErr[1],
                                 lastState |-> ""])
            IN  /\ pc = "closed"
                /\ notfoundTick = polls - 1
                /\ IF outcome = "TimeoutError"
                   THEN ret = [result |-> Nil,
                               err |-> TimeoutErrorOf("", wrapped)]
                   ELSE /\ outcome = "RefreshError"
                        /\ ret = [result |-> Nil, err |-> wrapped])
    /\ [][(pc = "reading" /\ lastTransportErr' # Nil)
             => outcome' = "RefreshError"]_vars
    /\ [][(pc = "grace" /\ now' # now)
             => /\ outcome' = "TimeoutError"
                /\ ret'.err[1].lastError = Nil
                /\ lastTransportErr' = lastTransportErr]_vars

\* the third call of GetRequestStatus failed, after two refreshes in progress
C2_Witness ==
    /\ lastTransportErr = Some("connection reset")
    /\ polls = 3
    /\ hist = << "RUNNING", "RUNNING", "ERROR" >>
    /\ outcome = "RefreshError"

\* C3 as stated: whenever a refresh has read FAILED the wait has ended as
\* failed at that refresh, with an error of the refresh carrying the
\* request's message and no result
C3_FailedAlwaysEndsAsFailed ==
    ObservedStatus = "FAILED" =>
        /\ outcome = "RefreshError"
        /\ polls = pendingSeen + 1
        /\ ret.result = Nil
        /\ ErrKind = "error"
        /\ ErrText = PrefixFailed \o lastObserved[1].message

\* C3 amended: a refresh that reads FAILED ends the wait at that refresh
\* (refresh k after k-1 in progress) with no result.  Answered before the
\* timeout has passed, it ends the wait as failed, with an error carrying the
\* request's message; answered in the grace period after the timeout, it
\* ends the wait by its timeout, with that error as the last error of the
\* timeout error.  Once the wait has ended no refresh and no read follows
C3_FailedEndsWait ==
    /\ [](ObservedStatus = "FAILED" =>
            LET failure == Some([kind |-> "error",
                                 text |-> PrefixFailed \o lastObserved[1].message,
                                 lastState |-> ""])
            IN  /\ pc = "closed"
                /\ polls = pendingSeen + 1
                /\ reads = polls
                /\ IF outcome = "TimeoutError"
                   THEN ret = [result |-> Nil,
                               err |-> TimeoutErrorOf("", failure)]
                   ELSE /\ outcome = "RefreshError"
                        /\ ret = [result |-> Nil, err |-> failure])
    /\ [][(pc = "reading" /\ lastObserved' # lastObserved
            /\ lastObserved' # Nil /\ lastObserved'[1].status = "FAILED")
             => outcome' = "RefreshError"]_vars
    /\ [][Ended => (polls' = polls /\ reads' = reads /\ outcome' = outcome
                    /\ ret' = ret)]_vars

\* the run RUNNING, RUNNING, FAILED("disk full") has ended at its third refresh
C3_Witness ==
    /\ hist = << "RUNNING", "RUNNING", "FAILED" >>
    /\ polls = 3
    /\ outcome = "RefreshError"
    /\ ErrText = "Request failed with following error: disk full"

\* C4 as stated: a wait whose every refresh read a status in progress ends
\* only by the timeout, not before the timeout has passed, with no result
\* and with the status last read as the last state of the timeout error
C4_PendingForeverTimesOut ==
    (Ended /\ polls >= 1 /\ pendingSeen = polls) =>
        /\ outcome = "TimeoutError"
        /\ now >= Timeout
        /\ ret.result = Nil
        /\ ErrKind = "TimeoutError"
        /\ ret.err[1].lastState = ObservedStatus

\* C5: with an empty path the wait ends at its first refresh with the error
\* of the empty path and no result; GetRequestStatus is never called, the
\* refresh is not counted as one without a result, and no second refresh is
\* made
C5_EmptyPathFailsWithoutRead ==
    path = "" =>
        /\ reads = 0
        /\ polls <= 1
        /\ notfoundTick = 0
        /\ outcome \in {"Pending", "RefreshError"}
        /\ polls = 1 =>
              /\ outcome = "RefreshError"
              /\ ret = [result |-> Nil,
                        err |-> Some([kind |-> "error",
                                      text |-> "Can not check a state when path is empty",
                                      lastState |-> ""])]

\* the wait on the empty path has ended at its first refresh
C5_Witness ==
    /\ path = ""
    /\ polls = 1
    /\ reads = 0
    /\ writes = 0
    /\ outcome = "RefreshError"

\* C6 as stated: a refresh that reads a status other than FAILED and DONE,
\* known or not, returns that status as the state and no error, and never
\* ends the wait: after it the wait goes on, or ends by its timeout
C6_OtherStatusNeverEndsWait ==
    (lastObserved # Nil /\ ObservedStatus \notin {"FAILED", "DONE"}) =>
        /\ lastResult.state = ObservedStatus
        /\ lastResult.err = Nil
        /\ outcome \in {"Pending", "TimeoutError"}

\* C7 as stated: the error of a refresh that read FAILED equals the request's
\* message when that is not empty, and is some non-empty text when it is
C7_FailedMessageEqualsMsg ==
    ObservedStatus = "FAILED" =>
        IF lastObserved[1].message # ""
        THEN lastResult.err = Some(lastObserved[1].message)
        ELSE lastResult.err # Nil /\ lastResult.err[1] # ""

\* C7 amended: the error of a refresh that read FAILED is the text
\* "Request failed with following error: " followed by the request's
\* message; it is not empty, also when the message is
C7_FailedMessageCarriesMsg ==
    ObservedStatus = "FAILED" =>
        /\ lastResult.err = Some("Request failed with following error: "
                                   \o lastObserved[1].message)
        /\ lastResult.err[1] # ""
        /\ lastResult.err[1] # lastObserved[1].message
        /\ lastResult.result = Nil
        /\ lastResult.state = ""

\* a refresh has read FAILED with an empty message
C7_Witness ==
    /\ ObservedStatus = "FAILED"
    /\ lastObserved[1].message = ""
    /\ lastResult.err = Some("Request failed with following error: ")

\* C8: a refresh that reads DONE reports the target state with the request
\* as its result whatever the message, and the loop takes it for success
\* whatever its counters; so does every refresh of a request that has
\* reached DONE, which stays DONE
C8_DoneAlwaysSucceeds ==
    /\ [](/\ \A m \in Messages :
               LET req == [status |-> "DONE", message |-> m]
                   r   == resourceStateRefreshFunc("requests/1", Nil, req)
               IN  /\ r = [result |-> Some(req), state |-> "DONE", err |-> Nil]
                   /\ Evaluate(getStateChangeConf, r, notfoundTick,
                               targetOccurence).kind = "Succeeded"
          /\ ObservedStatus = "DONE" =>
               /\ outcome = "Succeeded"
               /\ remote = lastObserved[1]
               /\ ret.result = Some(remote))
    /\ [][remote.status = "DONE" => remote' = remote]_vars

\* a refresh has read DONE with a message and the wait has succeeded
C8_Witness ==
    /\ ObservedStatus = "DONE"
    /\ lastObserved[1].message = "disk full"
    /\ outcome = "Succeeded"

\* C9 as stated: once the enclosing operation is cancelled no refresh is
\* made, and the wait ends with a cancellation of its own
C9_NoPollAfterCancel ==
    /\ cancelled # "polled"
    /\ (cancelled # "no" /\ Ended) => outcome = "Cancelled"

\* C9 amended: the wait does not observe the cancellation.  It goes on
\* refreshing, a wait that ends with no refresh called or answered after
\* the cancellation ends by its timeout, and the ways it ends are those of
\* a wait that was not cancelled
C9_CancelNotObserved ==
    /\ [](/\ outcome \in {"Pending", "Succeeded", "RefreshError",
                           "NotFoundError", "TimeoutError"}
          /\ (cancelled # "no" /\ Ended) =>
                \/ outcome = "Succeeded" /\ ObservedStatus = "DONE"
                \/ outcome = "RefreshError"
                     /\ (path = "" \/ lastTransportErr # Nil
                         \/ ObservedStatus = "FAILED")
                \/ outcome = "NotFoundError" /\ notfoundTick > 600
                \/ outcome = "TimeoutError" /\ now >= Timeout)
    /\ [][(cancelled = "quiet" /\ cancelled' = "quiet"
            /\ pc \in {"delay", "loop"} /\ Ended')
             => outcome' = "TimeoutError"]_vars

\* a cancelled wait has gone on refreshing and has succeeded
C9_Witness ==
    /\ cancelled = "polled"
    /\ polls >= 2
    /\ outcome = "Succeeded"

\* C10: the first refresh is made no earlier than 10 s after the wait began
\* and every later one no earlier than 10 s after the one before, so that
\* after k refreshes at least 10 s + (k-1) x 10 s have passed
C10_PollSpacing ==
    /\ [](polls >= 1 => now >= 10000 + (polls - 1) * 10000)
    /\ [][polls' = polls + 1 =>
            IF polls = 0 THEN now' >= 10000 ELSE now' >= now + 10000]_vars

\* four refreshes made as early as they can be
C10_Witness ==
    /\ polls = 4
    /\ now = 40000
    /\ outcome = "Pending"

\* C12: a refresh with a path calls GetRequestStatus exactly once (none is
\* made for the empty path) and calls nothing else: the request held by the
\* API is the same after the call, and after its answer, as before, and
\* nothing is submitted again, however many refreshes are made
C12_PollOnlyReads ==
    /\ [](writes = 0 /\ reads = (IF path = "" THEN 0 ELSE polls))
    /\ [][polls' = polls + 1 =>
            /\ reads' = (IF path = "" THEN reads ELSE reads + 1)
            /\ writes' = writes
            /\ remote' = remote]_vars
    /\ [][(pc \in {"reading", "grace"} /\ lastResult' # lastResult) =>
            /\ reads' = reads
            /\ writes' = writes
            /\ remote' = remote]_vars

\* five refreshes have made five reads of a request still in progress
C12_Witness ==
    /\ path # ""
    /\ polls = 5
    /\ reads = 5
    /\ writes = 0
    /\ remote.status = "RUNNING"

\* C13 as stated: a wait whose every refresh read a status in progress never
\* ends for lack of a result (tolerance exhausted), whatever its timeout; it
\* is pending or has timed out
C13_PendingNeverExhaustsBudget ==
    (polls >= 1 /\ pendingSeen = polls) =>
        outcome \in {"Pending", "TimeoutError"}

\* C14: with the default timeout of any type (60 min) the wait never ends
\* for lack of a result: at most 360 refreshes fit before the timeout, fewer
\* than the 600 tolerated, and a wait that stays in progress times out
C14_DefaultsTimeOutFirst ==
    d = resourceDefaultTimeouts =>
        /\ Timeout = 3600000
        /\ polls <= 360
        /\ notfoundTick < 600
        /\ outcome # "NotFoundError"
        /\ (Ended /\ polls >= 1 /\ pendingSeen = polls) =>
              (outcome = "TimeoutError" /\ now = 3600000)

\* a wait with the default timeout has timed out after 360 refreshes that
\* all read a status in progress
C14_Witness ==
    /\ d = resourceDefaultTimeouts
    /\ outcome = "TimeoutError"
    /\ polls = 360
    /\ pendingSeen = 360
    /\ notfoundTick = 360

\* the terminal state of section 4.3 a returned value stands for, given
\* whether the last refresh read FAILED
TerminalStateOf(out, failed) ==
    CASE out = "Pending" -> "Pending"
      [] out = "Succeeded" -> "Succeeded"
      [] out = "TimeoutError" -> "TimedOut"
      [] out = "NotFoundError" -> "Aborted"
      [] out = "RefreshError" /\ failed -> "Failed"
      [] out = "RefreshError" /\ ~failed -> "Aborted"
      [] OTHER -> "None"

TerminalState == TerminalStateOf(outcome, ObservedStatus = "FAILED")

\* the terminal state of wait i of the two
TwoTerminalState(i) ==
    LET w == inst[i]
        n == Len(w.own)
    IN  TerminalStateOf(w.outcome,
                        n > 0 /\ w.own[n].terr = Nil
                              /\ w.own[n].req.status = "FAILED")

\* one wait is running on its own
Single == handles = << >>

\* every wait that is running has ended
AllEnded ==
    IF Single THEN Ended ELSE \A i \in Waits : inst[i].outcome # "Pending"

\* C15: every wait ends, in one of Succeeded, Failed, TimedOut, Aborted; once
\* it has ended no refresh is made and what it returned does not change; of
\* two waits given different locations, each location is asked for by the
\* one wait it was given to
C15_EndsOnceInTerminalState ==
    /\ <>AllEnded
    /\ [](Single =>
            /\ TerminalState \in {"Pending", "Succeeded", "Failed", "TimedOut",
                                  "Aborted"}
            /\ Ended <=> pc = "closed")
    /\ [][Ended => (/\ outcome' = outcome /\ ret' = ret /\ polls' = polls
                    /\ reads' = reads /\ pc' = pc /\ now' = now)]_vars
    /\ [](~Single => \A i \in Waits :
            /\ TwoTerminalState(i) \in {"Pending", "Succeeded", "Failed",
                                        "TimedOut", "Aborted"}
            /\ inst[i].outcome # "Pending" <=> inst[i].pc = "closed")
    /\ [][~Single => \A i \in Waits :
            inst[i].outcome # "Pending" =>
               /\ inst'[i] = inst[i]
               /\ \A h \in Handles : i \in readers'[h] <=> i \in readers[h]]_vars
    /\ [](~Single => \A h \in Handles :
            /\ Cardinality(readers[h]) <= 1
            /\ readers[h] \subseteq {i \in Waits : handles[i] = h}
            /\ (\A i \in Waits : inst[i].outcome # "Pending")
                  => readers[h] = {i \in Waits : handles[i] = h /\ inst[i].polls > 0})

\* of two waits side by side one has timed out and the other has ended as
\* Failed at its second refresh, each location asked for by its own wait
C15_Witness ==
    /\ ~Single
    /\ TwoTerminalState(1) = "TimedOut"
    /\ TwoTerminalState(2) = "Failed"
    /\ inst[2].polls = 2
    /\ readers = [h \in Handles |-> {i \in Waits : handles[i] = h}]

\* C16: success is returned only by a wait whose last refresh read DONE and
\* whose refreshes before all read a status in progress (none read FAILED,
\* had an empty path or a failed read); every other wait that has ended
\* returned an error and no result, and an error a refresh returned is
\* returned by the wait, as its error or as the last error of its timeout
C16_NoErrorSwallowed ==
    /\ (Ended /\ ret.err = Nil) =>
          /\ outcome = "Succeeded"
          /\ ObservedStatus = "DONE"
          /\ path # ""
          /\ lastTransportErr = Nil
          /\ pendingSeen = polls - 1
          /\ ret.result # Nil
    /\ (Ended /\ outcome # "Succeeded") => (ret.err # Nil /\ ret.result = Nil)
    /\ ~Ended => ret = [result |-> Nil, err |-> Nil]
    /\ (lastResult.err # Nil) =>
          /\ Ended
          /\ \/ ErrKind = "error" /\ ErrText = lastResult.err[1]
             \/ /\ ErrKind = "TimeoutError"
                /\ ret.err[1].lastError # Nil
                /\ ret.err[1].lastError[1].text = lastResult.err[1]

\* a wait has ended by the not-found error, with no result
C16_Witness ==
    /\ outcome = "NotFoundError"
    /\ ErrKind = "NotFoundError"
    /\ ret.result = Nil

\* the waits whose ending is followed: one wait on its own, a create with
\* either of the timeouts a configuration sets (the short one and the one
\* that outlasts the 600 refreshes without a result), or two waits side by
\* side
FairInit ==
    \/ Init /\ timeoutType = "create" /\ d["create"] \in UserTimeouts
    \/ InitTwo

FairNext ==
    \/ Single /\ Next
    \/ ~Single /\ NextTwo

\* the waits with the scheduling the Go runtime gives them: timers fire and
\* a goroutine that can run does.  Nothing is assumed of GetRequestStatus:
\* a call of it need not answer
FairSpec ==
    /\ FairInit /\ [][FairNext]_vars
    /\ WF_vars(Single /\ InitialDelay) /\ WF_vars(Single /\ Poll)
    /\ WF_vars(Single /\ TimeoutFire) /\ WF_vars(Single /\ GraceExpire)
    /\ WF_vars(~Single /\ TwoInitialDelay) /\ WF_vars(~Single /\ TwoPoll)
    /\ WF_vars(~Single /\ TwoTimeoutFire)
    /\ WF_vars(~Single /\ TwoGraceExpire)

\* providerConfigure was given exactly one form of credentials
OneCredentialForm ==
    \/ cfg.token # "" /\ cfg.username = "" /\ cfg.password = ""
    \/ cfg.token = "" /\ cfg.username # "" /\ cfg.password # ""

\* C17: providerConfigure returns a client only when exactly one form of
\* credentials is given (a token and neither username nor password, or no
\* token and both); for every other combination it returns an error and no
\* client.  With one form given it returns what config.Client() returns.
C17_OneCredentialForm ==
    configured # Nil =>
        LET r == configured[1]
        IN  /\ r.client # Nil => (OneCredentialForm /\ r.err = Nil)
            /\ ~OneCredentialForm => (r.client = Nil /\ r.err # Nil
                                      /\ r.err # cfg.clientErr)
            /\ OneCredentialForm =>
                  /\ r.err = cfg.clientErr
                  /\ r.client # Nil <=> cfg.clientErr = Nil
                  /\ r.client # Nil =>
                        /\ r.client[1].Token = cfg.token
                        /\ r.client[1].Username = cfg.username
                        /\ r.client[1].Password = cfg.password

\* a token given along with a username has been refused
C17_Witness ==
    /\ configured # Nil
    /\ cfg.token = "tok"
    /\ cfg.username = "user"
    /\ configured[1].client = Nil
    /\ configured[1].err =
         Some("Only provide ProfitBricks token OR ProfitBricks username/password.")

\* C18 as stated: cleanURL of an endpoint longer than one character does not
\* end in a slash, cleanURL of its result is that result, and an endpoint of
\* at most one character is returned as it is
C18_CleanURLStripsAllSlashes ==
    cleans >= 1 =>
        /\ Len(cfg.endpoint) > 1 => (url = << >> \/ url[Len(url)] # "/")
        /\ Len(cfg.endpoint) <= 1 => url = cfg.endpoint
        /\ url = cleanURL(cfg.endpoint)

\* an answer that decides a wait: a failed call, or a final status
Decisive(x) == x.terr # Nil \/ x.req.status \in {"DONE", "FAILED"}

\* C11: of two waits on different locations, under every interleaving, each
\* has made the refreshes and come to the end that the statuses of its own
\* request (and its own timeout) give, whatever the other wait and the other
\* request did: it goes on while its request is in progress and its calls
\* succeed, and ends at the first answer for which that is not so, by
\* success if its request is DONE and by that request's or call's error
\* otherwise.  Each location is asked for by its own wait only, and no wait
\* changes the lists of states the waits share
C11_WaitsIndependent ==
    /\ \A i \in Waits :
          LET w == inst[i]
              n == Len(w.own)
              unanswered ==
                 \/ w.pc \in {"reading", "grace"}
                 \/ w.pc = "closed" /\ w.fired /\ w.now > ShortTimeout
          IN  /\ \A k \in 1..(n - 1) : ~Decisive(w.own[k])
              /\ w.polls = n + (IF unanswered THEN 1 ELSE 0)
              /\ IF n > 0 /\ Decisive(w.own[n])
                 THEN LET x    == w.own[n]
                          text == "Request failed with following error: "
                                    \o (IF x.terr # Nil THEN x.terr[1]
                                        ELSE x.req.message)
                      IN  /\ w.pc = "closed"
                          /\ IF x.terr = Nil /\ x.req.status = "DONE"
                             THEN /\ w.outcome = "Succeeded"
                                  /\ w.ret = [result |-> Some(x.req), err |-> Nil]
                             ELSE IF w.fired
                             THEN /\ w.outcome = "TimeoutError"
                                  /\ w.ret.result = Nil
                                  /\ w.ret.err[1].kind = "TimeoutError"
                                  /\ w.ret.err[1].lastError # Nil
                                  /\ w.ret.err[1].lastError[1].text = text
                             ELSE /\ w.outcome = "RefreshError"
                                  /\ w.ret.result = Nil
                                  /\ w.ret.err[1].kind = "error"
                                  /\ w.ret.err[1].text = text
                 ELSE /\ w.outcome \in {"Pending", "TimeoutError"}
                      /\ w.outcome = "TimeoutError" <=> (w.fired /\ w.pc = "closed")
                      /\ w.outcome = "TimeoutError" =>
                            /\ w.ret.result = Nil
                            /\ w.ret.err[1].lastError = Nil
                            /\ w.ret.err[1].lastState =
                                 (IF n = 0 THEN "" ELSE w.own[n].req.status)
    /\ \A h \in Handles : readers[h] \subseteq {i \in Waits : handles[i] = h}
    /\ shared = [pending |-> {"RUNNING", "QUEUED"}, target |-> {"DONE"}]

\* one wait has succeeded at its second refresh while the other, on a
\* request that failed, has ended with that request's error
C11_Witness ==
    /\ inst[1].outcome = "Succeeded"
    /\ inst[1].polls = 2
    /\ inst[2].outcome = "RefreshError"
    /\ inst[2].ret.err[1].text = "Request failed with following error: disk full"
    /\ readers = [h \in Handles |-> {i \in Waits : handles[i] = h}]

====
